---- MODULE Spec2Model ----
(***************************************************************************)
(* Model of wedding_seating_app.py: a Streamlit script that loads a guest  *)
(* sheet and a floor-plan image once, offers the guests' names and         *)
(* relationships in a select box, resolves the selected term to one guest  *)
(* (through a second select box when several guests match) and draws a     *)
(* marker on a copy of the floor plan.                                     *)
(*                                                                         *)
(* Streamlit runs the script top to bottom once at session start and once  *)
(* more after every widget change, so each action below is one whole run   *)
(* of the script: Startup is the first run, SelectSearch and               *)
(* SelectIndividual are a change of one select box followed by the rerun.  *)
(*                                                                         *)
(* Strings are sequences of one-character strings, so that strip(),        *)
(* lower(), upper() and the label's f-string are computed character by     *)
(* character.  A spreadsheet cell is absent (NaN), a string, or a number.  *)
(* The overview image and the page's static text are not modelled.         *)
(***************************************************************************)
EXTENDS Integers, Sequences, FiniteSets, TLC

\* ------------------------------------------------------------------------
\* Bounds of the model
\* ------------------------------------------------------------------------

\* The largest number of guest rows in a sheet.
MaxRows == 2

\* ------------------------------------------------------------------------
\* Configuration (section 1 of the script)
\* ------------------------------------------------------------------------

TABLE_COORDS ==
    (<<"V", "I", "P">> :> <<6250, 1820>>) @@
    (<<"1">> :> <<7200, 1820>>) @@
    (<<"2">> :> <<5065, 1820>>) @@
    (<<"3">> :> <<4115, 2000>>) @@
    (<<"4">> :> <<3650, 4100>>) @@
    (<<"5">> :> <<2705, 4100>>) @@
    (<<"6">> :> <<1750, 4100>>) @@
    (<<"7">> :> <<800, 4100>>)

CIRCLE_RADIUS == 35

MAX_MAP_WIDTH_PIXELS == 1800

\* ------------------------------------------------------------------------
\* Python strings
\* ------------------------------------------------------------------------

\* str.lower() on one character of the model's alphabet.
LowerChar(c) ==
    CASE c = "A" -> "a"
      [] c = "V" -> "v"
      [] c = "I" -> "i"
      [] c = "P" -> "p"
      [] c = "N" -> "n"
      [] OTHER   -> c

\* str.upper() on one character of the model's alphabet.
UpperChar(c) ==
    CASE c = "a" -> "A"
      [] c = "v" -> "V"
      [] c = "i" -> "I"
      [] c = "p" -> "P"
      [] c = "n" -> "N"
      [] OTHER   -> c

Lower(s) == [i \in 1..Len(s) |-> LowerChar(s[i])]

Upper(s) == [i \in 1..Len(s) |-> UpperChar(s[i])]

RECURSIVE LStrip(_)
LStrip(s) ==
    IF s = <<>> THEN <<>>
    ELSE IF Head(s) = " " THEN LStrip(Tail(s)) ELSE s

RECURSIVE RStrip(_)
RStrip(s) ==
    IF s = <<>> THEN <<>>
    ELSE IF s[Len(s)] = " " THEN RStrip(SubSeq(s, 1, Len(s) - 1)) ELSE s

\* str.strip(): the string without its leading and trailing whitespace.
Strip(s) == RStrip(LStrip(s))

\* ------------------------------------------------------------------------
\* Spreadsheet cells and pandas columns
\* ------------------------------------------------------------------------

\* A cell read by pandas: NaN for an empty cell, a str, or a number (val is
\* then Python's str() of the number).
NaN == [kind |-> "nan", val |-> <<>>]

StrCell(s) == [kind |-> "str", val |-> s]

NumCell(s) == [kind |-> "num", val |-> s]

\* str(value), as astype(str) and an f-string field render a cell.
Str(c) == IF c.kind = "nan" THEN <<"n", "a", "n">> ELSE c.val

\* The column `col` of data frame df, as the sequence of its cells.
Column(df, col) == [i \in 1..Len(df.rows) |-> df.rows[i][col]]

\* Series.str is available on an empty column and on a column that holds at
\* least one str; on a column of numbers and NaN only (dtype int64, float64)
\* the accessor raises AttributeError.
StrAccessorOK(cells) ==
    \/ Len(cells) = 0
    \/ \E i \in 1..Len(cells) : cells[i].kind = "str"

\* s holds q as a run of consecutive characters.
Contains(s, q) ==
    \E i \in 0..(Len(s) - Len(q)) : SubSeq(s, i + 1, i + Len(q)) = q

\* Series.str.strip().str.lower().str.contains(q): a substring match in
\* place of the equality.
NormEqContains(cells, q) ==
    [i \in 1..Len(cells) |->
        /\ cells[i].kind = "str"
        /\ Contains(Lower(Strip(cells[i].val)), q)]

\* Series.str.strip().str.lower().eq(q): elementwise; a cell that is not a
\* str becomes NaN under .str and compares unequal.
NormEq(cells, q) ==
    [i \in 1..Len(cells) |->
        /\ cells[i].kind = "str"
        /\ Lower(Strip(cells[i].val)) = q]

\* The elements of a finite set of integers in ascending order.
RECURSIVE SortedSeq(_)
SortedSeq(S) ==
    IF S = {} THEN <<>>
    ELSE LET m == CHOOSE x \in S : \A y \in S : x <= y
         IN  <<m>> \o SortedSeq(S \ {m})

\* ------------------------------------------------------------------------
\* The files the script reads
\* ------------------------------------------------------------------------

NameCol == "Placard Name"

RelCol == "Relationship to Couple"

TableCol == "Table"

\* The rows over the columns cols, each cell drawn from its column's pool.
RowSet(cols, names, rels, tables) ==
    { [c \in cols |-> IF c = NameCol THEN t[1]
                      ELSE IF c = RelCol THEN t[2] ELSE t[3]] :
        t \in names \X rels \X tables }

\* The sheets with the two required columns, with and without the optional
\* relationship column, of at most MaxRows rows.
Sheets(names, rels, tables) ==
    { [columns |-> cols, rows |-> r] :
        cols \in {{NameCol, TableCol}},
        r \in UNION { [1..n -> RowSet({NameCol, TableCol}, names, {NaN}, tables)] :
                        n \in 0..MaxRows } }
    \cup
    { [columns |-> cols, rows |-> r] :
        cols \in {{NameCol, RelCol, TableCol}},
        r \in UNION { [1..n -> RowSet({NameCol, RelCol, TableCol}, names, rels, tables)] :
                        n \in 0..MaxRows } }

\* A guest data file: absent, present but not a readable workbook, or a sheet.
Missing == [state |-> "missing", columns |-> {}, rows |-> <<>>]

Unparsable == [state |-> "unparsable", columns |-> {}, rows |-> <<>>]

Readable(sheet) == [state |-> "ok", columns |-> sheet.columns, rows |-> sheet.rows]

\* A floor-plan file: absent, or an image of some original width.
NoMapFile == [exists |-> FALSE, width |-> 0]

MapFile(w) == [exists |-> TRUE, width |-> w]

\* The inputs of the resolver's specification (Spec).  Name cells: case and
\* whitespace variants of one name, a name that has it as a prefix, a number,
\* an empty cell.  Relationship cells: the same term, a text with a
\* parenthesis, a number, an empty cell.  One table, one floor plan.
NamePool ==
    { StrCell(<<"a">>), StrCell(<<"A", " ">>), StrCell(<<"a", " ", "(">>),
      NumCell(<<"7">>), NaN }

RelPool ==
    { StrCell(<<"a">>), StrCell(<<" ", "(", "a">>), NumCell(<<"7">>), NaN }

TablePool == { StrCell(<<"v", "i", "p">>) }

DataFiles ==
    {Missing, Unparsable} \cup { Readable(s) : s \in Sheets(NamePool, RelPool, TablePool) }

MapFiles == { MapFile(3600) }

\* The inputs of the annotator's specification (SpecMap): one name in two
\* spellings (so that two guests can be told apart by their labels), a
\* relationship as text and as a number, tables with and without
\* coordinates, and floor plans that are missing, within the maximum width,
\* and wider than it.  The widths are chosen so that
\* MAX_MAP_WIDTH_PIXELS / width is exact in floating point (1.0, 0.75, 0.5),
\* where int(v * factor) is the exact product truncated.
AnnotatorNamePool == { StrCell(<<"a">>), StrCell(<<"A">>) }

AnnotatorRelPool == { StrCell(<<"a">>), NumCell(<<"7">>) }

AnnotatorTablePool ==
    { StrCell(<<"v", "i", "p">>), NumCell(<<"3">>), NumCell(<<"9">>) }

AnnotatorDataFiles ==
    {Missing, Unparsable} \cup
    { Readable(s) : s \in Sheets(AnnotatorNamePool, AnnotatorRelPool, AnnotatorTablePool) }

AnnotatorMapFiles == { NoMapFile, MapFile(1800), MapFile(2400), MapFile(3600) }

\* ------------------------------------------------------------------------
\* State
\* ------------------------------------------------------------------------

VARIABLES
    data_file,            \* the guest workbook on disk
    map_file,             \* the floor-plan file on disk
    pc,                   \* "start", "ready", "stopped" (st.stop) or "crashed"
    guest_df,             \* the cached data frame: [columns, rows]
    heap,                 \* the image objects: name -> set of markers drawn on it
    base_map,             \* <<>> for None, else <<name of the cached image object>>
    MAP_SCALE_FACTOR,     \* the scale as the fraction [num, den]
    all_search_terms,     \* the vocabulary offered by the first select box
    search_selection,     \* value of the first select box
    selection_options,    \* options of the second select box, <<>> when not shown
    individual_selection, \* value of the second select box
    initial_matches,      \* row numbers of the rows that match the query
    final_match,          \* row numbers of the resolved rows
    page                  \* what the last run of the script displayed

vars == <<data_file, map_file, pc, guest_df, heap, base_map, MAP_SCALE_FACTOR,
          all_search_terms, search_selection, selection_options,
          individual_selection, initial_matches, final_match, page>>

\* ------------------------------------------------------------------------
\* Section 2 of the script: loading
\* ------------------------------------------------------------------------

\* pd.DataFrame(): no columns, no rows.
EmptyFrame == [columns |-> {}, rows |-> <<>>]

\* load_data: the sheet, or an empty data frame when the file is missing or
\* cannot be read (st.error is shown, nothing is raised).
load_data(file) ==
    IF file.state = "ok"
    THEN [columns |-> file.columns, rows |-> file.rows]
    ELSE EmptyFrame

\* DataFrame.empty: no rows or no columns.
IsEmpty(df) == df.columns = {} \/ Len(df.rows) = 0

\* load_map_image: (None, 1.0) when the file is missing, else the image and
\* the scaling factor MAX_MAP_WIDTH_PIXELS / original_width when the image is
\* wider than MAX_MAP_WIDTH_PIXELS, 1.0 otherwise.
load_map_image(file) ==
    IF ~file.exists
    THEN [image |-> <<>>, scale |-> [num |-> 1, den |-> 1]]
    ELSE IF file.width > MAX_MAP_WIDTH_PIXELS
         THEN [image |-> <<"base">>,
               scale |-> [num |-> MAX_MAP_WIDTH_PIXELS, den |-> file.width]]
         ELSE [image |-> <<"base">>, scale |-> [num |-> 1, den |-> 1]]

\* df['Placard Name'] raises KeyError when the frame has no such column.
SearchTermsRaises(df) == NameCol \notin df.columns

\* column.dropna().astype(str).str.strip().tolist(), as the set of its values.
StrippedValues(cells) ==
    { Strip(Str(cells[i])) : i \in { j \in 1..Len(cells) : cells[j].kind # "nan" } }

\* get_search_terms: the non-empty stripped names and relationships, without
\* duplicates.  The list is sorted for display only; the model keeps the set.
get_search_terms(df) ==
    LET names == StrippedValues(Column(df, NameCol))
        relationships ==
            IF RelCol \in df.columns THEN StrippedValues(Column(df, RelCol)) ELSE {}
    IN  { t \in names \cup relationships : t # <<>> }

\* ------------------------------------------------------------------------
\* Section 5 of the script: search, disambiguation, display
\* ------------------------------------------------------------------------

\* query_lower
QueryLower(q) == Lower(Strip(q))

\* The .str accessor of line 242 or 246 raises AttributeError.
SearchRaises(df) ==
    \/ ~StrAccessorOK(Column(df, NameCol))
    \/ RelCol \in df.columns /\ ~StrAccessorOK(Column(df, RelCol))

\* initial_matches: the rows selected by the boolean mask, in sheet order.
InitialMatches(df, q) ==
    LET match_is_name == NormEq(Column(df, NameCol), QueryLower(q))
    IN  IF RelCol \in df.columns
        THEN LET match_is_relationship == NormEq(Column(df, RelCol), QueryLower(q))
             IN  SortedSeq({ i \in 1..Len(df.rows) :
                               match_is_name[i] \/ match_is_relationship[i] })
        ELSE SortedSeq({ i \in 1..Len(df.rows) : match_is_name[i] })

\* The UniqueSelection column of one row.
UniqueSelection(row) ==
    IF RelCol \in DOMAIN row
    THEN Str(row[NameCol]) \o <<" ", "(">> \o Str(row[RelCol]) \o <<")">>
    ELSE Str(row[NameCol])

\* selection_options: the empty prompt followed by the labels of the matches.
SelectionOptions(df, matches) ==
    <<<<>>>> \o [k \in 1..Len(matches) |-> UniqueSelection(df.rows[matches[k]])]

\* The rows of initial_matches whose UniqueSelection equals the selection.
FilterBySelection(df, matches, selection) ==
    LET keep == { k \in 1..Len(matches) :
                    UniqueSelection(df.rows[matches[k]]) = selection }
        ks == SortedSeq(keep)
    IN  [n \in 1..Len(ks) |-> matches[ks[n]]]

\* Steps 1 to 3 without the elif of step 2: a single match is not taken.
FinalMatchNoSingle(df, matches, selection) ==
    IF Len(matches) > 1 /\ selection # <<>>
    THEN FilterBySelection(df, matches, selection)
    ELSE <<>>

\* final_match after steps 1 to 3.
FinalMatch(df, matches, selection) ==
    IF Len(matches) > 1
    THEN IF selection # <<>> THEN FilterBySelection(df, matches, selection) ELSE <<>>
    ELSE IF Len(matches) = 1 THEN matches ELSE <<>>

\* found_table without .upper().
FoundTableRaw(row) == Str(row[TableCol])

\* found_table
FoundTable(row) == Upper(Str(row[TableCol]))

\* group_name
GroupName(row) ==
    IF RelCol \in DOMAIN row THEN Str(row[RelCol]) ELSE <<"Relationship N/A">>

\* v * MAP_SCALE_FACTOR rounded to the nearest integer instead of truncated.
ScaledIntRounded(v, factor) == (2 * v * factor.num + factor.den) \div (2 * factor.den)

\* int(v * MAP_SCALE_FACTOR) for v >= 0: the product truncated.
ScaledInt(v, factor) == (v * factor.num) \div factor.den

\* The circle drawn for a table: its centre and radius in displayed pixels.
Marker(table, factor) ==
    [x |-> ScaledInt(TABLE_COORDS[table][1], factor),
     y |-> ScaledInt(TABLE_COORDS[table][2], factor),
     r |-> ScaledInt(CIRCLE_RADIUS, factor)]

\* Drawing on the image object itself instead of on a copy of it.
CopyInPlace(image) == image

\* base_map.copy(): a new image object.
Copy(image) == "copy"

\* A page with nothing on it.
BlankPage ==
    [exception |-> "", info |-> 0, success |-> <<>>, warning |-> FALSE,
     not_found |-> FALSE, map |-> <<>>]

\* The page when the script displays the image object `image` (if any).
WithMap(p, h, image) ==
    IF image = <<>> THEN p ELSE [p EXCEPT !.map = <<h[image[1]]>>]

\* ------------------------------------------------------------------------
\* Actions: one run of the script each
\* ------------------------------------------------------------------------

\* The state before the first run, over the given files.
InitOver(files, maps) ==
    /\ data_file \in files
    /\ map_file \in maps
    /\ pc = "start"
    /\ guest_df = EmptyFrame
    /\ heap = [o \in {"base", "copy"} |-> {}]
    /\ base_map = <<>>
    /\ MAP_SCALE_FACTOR = [num |-> 1, den |-> 1]
    /\ all_search_terms = {}
    /\ search_selection = <<>>
    /\ selection_options = <<>>
    /\ individual_selection = <<>>
    /\ initial_matches = <<>>
    /\ final_match = <<>>
    /\ page = BlankPage

\* Sections 4 and 5 over the cached frame df, the cached image (base_map)
\* and the scaling factor, with the first select box holding q.  `held` is the value
\* the session holds for the second select box: Streamlit keeps it while the
\* box is shown with the same options and starts a box with other options at
\* its first option, the empty prompt.
Run(df, image, factor, q, held) ==
    /\ search_selection' = q
    /\ IF q # <<>> /\ SearchRaises(df)
       THEN \* AttributeError out of line 242 or 246: the run ends there
            /\ initial_matches' = <<>>
            /\ selection_options' = <<>>
            /\ individual_selection' = <<>>
            /\ final_match' = <<>>
            /\ heap' = heap
            /\ page' = [BlankPage EXCEPT !.exception = "AttributeError"]
       ELSE \E matches \in {IF q # <<>> THEN InitialMatches(df, q) ELSE <<>>} :
            \E options \in {IF Len(matches) > 1
                            THEN SelectionOptions(df, matches) ELSE <<>>} :
            \E selection \in {IF options # <<>> /\ options = selection_options
                              THEN held ELSE <<>>} :
            \E final \in {FinalMatch(df, matches, selection)} :
            LET info == IF Len(matches) > 1 THEN Len(matches) ELSE 0
            IN  /\ initial_matches' = matches
                /\ selection_options' = options
                /\ individual_selection' = selection
                /\ final_match' = final
                /\ IF final # <<>>
                   THEN LET row == df.rows[final[1]]
                            found_table == FoundTable(row)
                            shown == [BlankPage EXCEPT
                                        !.info = info,
                                        !.success = <<[name  |-> Str(row[NameCol]),
                                                       table |-> found_table,
                                                       group |-> GroupName(row)]>>]
                        IN  IF image # <<>> /\ found_table \in DOMAIN TABLE_COORDS
                            THEN LET drawn_map == Copy(image[1])
                                     copied == [heap EXCEPT ![drawn_map] = heap[image[1]]]
                                     drawn == [copied EXCEPT ![drawn_map] =
                                                 @ \cup {Marker(found_table, factor)}]
                                 IN  /\ heap' = drawn
                                     /\ page' = WithMap(shown, drawn, <<drawn_map>>)
                            ELSE IF image # <<>>
                            THEN /\ heap' = heap
                                 /\ page' = WithMap([shown EXCEPT !.warning = TRUE],
                                                    heap, image)
                            ELSE /\ heap' = heap
                                 /\ page' = shown
                   ELSE IF q # <<>> /\ Len(matches) = 0
                   THEN /\ heap' = heap
                        /\ page' = WithMap([BlankPage EXCEPT !.not_found = TRUE],
                                           heap, image)
                   ELSE /\ heap' = heap
                        /\ page' = WithMap([BlankPage EXCEPT !.info = info],
                                           heap, image)

\* The first run of the script: lines 140 to 150 load the files and build the
\* vocabulary, line 218 stops the run on an empty frame, and the rest renders
\* the page with nothing selected.
Startup ==
    /\ pc = "start"
    /\ LET df == load_data(data_file)
           loaded == load_map_image(map_file)
       IN  /\ guest_df' = df
           /\ base_map' = loaded.image
           /\ MAP_SCALE_FACTOR' = loaded.scale
           /\ IF SearchTermsRaises(df)
              THEN \* KeyError out of get_search_terms: nothing is rendered
                   /\ pc' = "crashed"
                   /\ all_search_terms' = {}
                   /\ page' = [BlankPage EXCEPT !.exception = "KeyError"]
                   /\ UNCHANGED <<heap, search_selection, selection_options,
                                  individual_selection, initial_matches, final_match>>
              ELSE /\ all_search_terms' = get_search_terms(df)
                   /\ IF IsEmpty(df)
                      THEN \* st.stop()
                           /\ pc' = "stopped"
                           /\ page' = BlankPage
                           /\ UNCHANGED <<heap, search_selection, selection_options,
                                          individual_selection, initial_matches,
                                          final_match>>
                      ELSE /\ pc' = "ready"
                           /\ Run(df, loaded.image, loaded.scale, <<>>, <<>>)
    /\ UNCHANGED <<data_file, map_file>>

\* The user picks another option of the first select box; the script reruns.
SelectSearch(q) ==
    /\ pc = "ready"
    /\ q # search_selection
    /\ Run(guest_df, base_map, MAP_SCALE_FACTOR, q, individual_selection)
    /\ UNCHANGED <<data_file, map_file, pc, guest_df, base_map, MAP_SCALE_FACTOR,
                   all_search_terms>>

\* The user picks another option of the second select box; the script reruns.
SelectIndividual(label) ==
    /\ pc = "ready"
    /\ label # individual_selection
    /\ Run(guest_df, base_map, MAP_SCALE_FACTOR, search_selection, label)
    /\ UNCHANGED <<data_file, map_file, pc, guest_df, base_map, MAP_SCALE_FACTOR,
                   all_search_terms>>

Next ==
    \/ Startup
    \/ \E q \in {<<>>} \cup all_search_terms : SelectSearch(q)
    \/ \E k \in 1..Len(selection_options) : SelectIndividual(selection_options[k])

Init == InitOver(DataFiles, MapFiles)

InitMap == InitOver(AnnotatorDataFiles, AnnotatorMapFiles)

Spec == Init /\ [][Next]_vars

SpecMap == InitMap /\ [][Next]_vars

\* ------------------------------------------------------------------------
\* Properties
\* ------------------------------------------------------------------------

\* The last run searched for a non-empty query and computed a match set.
Searched ==
    /\ pc = "ready"
    /\ search_selection # <<>>
    /\ page.exception = ""

\* The cell is a string whose trimmed, lower-cased value is that of q.
SameTerm(cell, q) ==
    /\ cell.kind = "str"
    /\ Strip(Lower(cell.val)) = Strip(Lower(q))

\* The rows a query is meant to match: by name, or by relationship when the
\* sheet has that column.
Expected(q) ==
    { i \in 1..Len(guest_df.rows) :
        \/ SameTerm(guest_df.rows[i][NameCol], q)
        \/ /\ RelCol \in guest_df.columns
           /\ SameTerm(guest_df.rows[i][RelCol], q) }

\* s is a proper prefix of t.
ProperPrefix(s, t) == Len(s) < Len(t) /\ SubSeq(t, 1, Len(s)) = s

\* Non-empty queries beyond the offered terms: padded, in the other case,
\* fragments of a name, blank.
QueryPool ==
    { <<"a">>, <<"A">>, <<" ", "A", " ">>, <<"a", " ">>, <<"a", " ", "(">>,
      <<"A", " ", "(", " ">>, <<"(", "a">>, <<" ", "(", "a">>, <<"(">>,
      <<"7">>, <<" ">>, <<"n", "a", "n">> }

C2_OutcomeBySize ==
    Searched =>
        /\ Len(initial_matches) = 0 =>
             /\ page.not_found
             /\ page.success = <<>>
             /\ final_match = <<>>
        /\ Len(initial_matches) = 1 =>
             /\ selection_options = <<>>
             /\ final_match = initial_matches
             /\ Len(page.success) = 1
             /\ page.success[1].name = Str(guest_df.rows[initial_matches[1]][NameCol])
             /\ ~page.not_found
        /\ Len(initial_matches) > 1 =>
             /\ Len(selection_options) = Len(initial_matches) + 1
             /\ page.info = Len(initial_matches)
             /\ ~page.not_found
             /\ individual_selection # <<>> =>
                  /\ final_match # <<>>
                  /\ Len(page.success) = 1
             /\ individual_selection = <<>> =>
                  /\ final_match = <<>>
                  /\ page.success = <<>>

\* C2 witness: several rows matched and a label was selected, which resolved.
C2_Witness ==
    /\ Searched
    /\ Len(initial_matches) > 1
    /\ individual_selection # <<>>
    /\ Len(page.success) = 1

\* C3: the resolved result never holds more than one row.
C3_AtMostOneResolved == Len(final_match) <= 1

\* The (name, relationship) pair of row i; the relationship of a sheet
\* without the column is absent.
Pair(i) ==
    <<guest_df.rows[i][NameCol],
      IF RelCol \in guest_df.columns THEN guest_df.rows[i][RelCol] ELSE NaN>>

\* C4: when several rows with pairwise distinct (name, relationship) pairs
\* match, their labels in the second select box are pairwise distinct.
C4_LabelsDistinct ==
    (Searched /\ Len(initial_matches) > 1
       /\ \A j, k \in 1..Len(initial_matches) :
            j # k => Pair(initial_matches[j]) # Pair(initial_matches[k]))
    => \A j, k \in 1..Len(initial_matches) :
            j # k => selection_options[j + 1] # selection_options[k + 1]

\* The label the specification gives a row: "name (relationship)" when the
\* row has a relationship, the name alone when it has none.
SpecLabel(i) ==
    LET row == guest_df.rows[i]
    IN  IF RelCol \in guest_df.columns /\ row[RelCol].kind # "nan"
        THEN Str(row[NameCol]) \o <<" ", "(">> \o Str(row[RelCol]) \o <<")">>
        ELSE Str(row[NameCol])

\* C5: each candidate's label is "name (relationship)" when the row has a
\* relationship and the bare name otherwise, also for an empty relationship
\* cell of a sheet that has the column.
C5_LabelFormat ==
    (Searched /\ Len(initial_matches) > 1) =>
        \A k \in 1..Len(initial_matches) :
            selection_options[k + 1] = SpecLabel(initial_matches[k])

\* C7: when the guest data file is missing or unreadable, the first run ends
\* stopped on the empty directory, and nothing raised on the way.
C7_EmptyDirectoryHalts ==
    (pc # "start" /\ data_file.state # "ok") =>
        /\ pc = "stopped"
        /\ page.exception = ""
        /\ IsEmpty(guest_df)

\* C10: no option of the first select box ends in the not-found message:
\* every search that computed a match set found at least one row.
C10_OptionsAlwaysMatch ==
    /\ ~page.not_found
    /\ Searched => Len(initial_matches) >= 1

\* The last run resolved a guest and displayed the result.
Resolved == pc = "ready" /\ Len(page.success) = 1

\* The coordinates configured for the displayed table.
ShownCoords == TABLE_COORDS[page.success[1].table]

\* m is the product v * MAP_SCALE_FACTOR rounded to the nearest integer,
\* halves upwards.
IsRounded(m, v) ==
    /\ 2 * m * MAP_SCALE_FACTOR.den <= 2 * v * MAP_SCALE_FACTOR.num + MAP_SCALE_FACTOR.den
    /\ 2 * v * MAP_SCALE_FACTOR.num + MAP_SCALE_FACTOR.den < 2 * (m + 1) * MAP_SCALE_FACTOR.den

\* m is the product v * MAP_SCALE_FACTOR with its fraction cut off.
IsTruncated(m, v) ==
    /\ m * MAP_SCALE_FACTOR.den <= v * MAP_SCALE_FACTOR.num
    /\ v * MAP_SCALE_FACTOR.num < (m + 1) * MAP_SCALE_FACTOR.den

\* The floor plan was 3600 pixels wide, twice the maximum width.
HalfScale == map_file.exists /\ map_file.width = 3600

\* C6 as stated: every marker drawn for a table with coordinates (x, y) has
\* its centre at (round(x * scale), round(y * scale)) and the radius
\* round(CIRCLE_RADIUS * scale); at original width 3600 the radius is 18.
C6_MarkerRounded ==
    (Resolved /\ page.map # <<>>) =>
        \A m \in page.map[1] :
            /\ IsRounded(m.x, ShownCoords[1])
            /\ IsRounded(m.y, ShownCoords[2])
            /\ IsRounded(m.r, CIRCLE_RADIUS)
            /\ HalfScale => m.r = 18

\* C6 amended: every marker drawn for a table with coordinates (x, y) has
\* its centre at (x * scale, y * scale) and the radius CIRCLE_RADIUS * scale,
\* each truncated to an integer; at original width 3600 the scale is one
\* half, (800, 200) scales to (400, 100) and the radius is 17.
C6_MarkerTruncated ==
    /\ (Resolved /\ page.map # <<>>) =>
          \A m \in page.map[1] :
              /\ IsTruncated(m.x, ShownCoords[1])
              /\ IsTruncated(m.y, ShownCoords[2])
              /\ IsTruncated(m.r, CIRCLE_RADIUS)
              /\ HalfScale => m.r = 17
    /\ (pc # "start" /\ HalfScale) =>
          /\ 2 * MAP_SCALE_FACTOR.num = MAP_SCALE_FACTOR.den
          /\ ScaledInt(800, MAP_SCALE_FACTOR) = 400
          /\ ScaledInt(200, MAP_SCALE_FACTOR) = 100
          /\ ScaledInt(CIRCLE_RADIUS, MAP_SCALE_FACTOR) = 17

\* C6 witness: a marker for table 3 at (4115, 2000) drawn on the half-scale
\* floor plan, where 2057.5 and 17.5 have a fraction to cut off.
C6_Witness ==
    /\ Resolved
    /\ HalfScale
    /\ page.success[1].table = <<"3">>
    /\ page.map = <<{[x |-> 2057, y |-> 1000, r |-> 17]}>>

\* The lower-case letters of the model's alphabet.
LowerLetters == {"a", "v", "i", "p", "n"}

\* The raw table value of the resolved row, as text.
RawTable == Str(guest_df.rows[final_match[1]][TableCol])

\* C8: the displayed table is the raw table in upper case, a raw 'vip' gets
\* the marker of 'VIP', and a table without coordinates on a loaded floor
\* plan raises nothing: the guest result, a warning and the unmarked floor
\* plan are shown.
C8_UpperCasedLookup ==
    Resolved =>
        LET shown == page.success[1].table
        IN  /\ Len(shown) = Len(RawTable)
            /\ \A i \in 1..Len(shown) :
                 /\ shown[i] \notin LowerLetters
                 /\ LowerChar(shown[i]) = LowerChar(RawTable[i])
            /\ (RawTable = <<"v", "i", "p">> /\ base_map # <<>>) =>
                 /\ ~page.warning
                 /\ page.map = <<{Marker(<<"V", "I", "P">>, MAP_SCALE_FACTOR)}>>
            /\ (shown \notin DOMAIN TABLE_COORDS /\ base_map # <<>>) =>
                 /\ page.exception = ""
                 /\ page.warning
                 /\ page.map = <<{}>>

\* C8 witness: a guest whose table has no coordinates was resolved on a
\* loaded floor plan.
C8_Witness ==
    /\ Resolved
    /\ base_map # <<>>
    /\ page.success[1].table \notin DOMAIN TABLE_COORDS
    /\ page.warning

\* C9: the cached floor plan never carries a marker; a page that shows the
\* floor plan shows it unmarked unless the run resolved a table with
\* coordinates, and then with the marker of that table alone.
C9_BaseNeverMutated ==
    /\ heap["base"] = {}
    /\ (pc = "ready" /\ base_map # <<>> /\ page.exception = "") =>
          /\ Len(page.map) = 1
          /\ IF Resolved /\ page.success[1].table \in DOMAIN TABLE_COORDS
             THEN page.map[1] = {Marker(page.success[1].table, MAP_SCALE_FACTOR)}
             ELSE page.map[1] = {}

\* C9 witness: after a lookup that drew a marker, a later run resolved a
\* guest whose table has no coordinates and displayed the floor plan.
C9_Witness ==
    /\ heap["copy"] # {}
    /\ Resolved
    /\ page.warning
    /\ page.map = <<{}>>

====
